---- MODULE Spec2Model ----
(***************************************************************************)
(* Model of static/js/excel_worker.js: a Web Worker that reads a workbook  *)
(* file, converts five named sheets to arrays of rows and streams them to  *)
(* the host in chunks of CHUNK_SIZE rows.                                  *)
(*                                                                         *)
(* The worker is event driven.  Each event handler runs to completion, so  *)
(* each handler is one action: the 'message' listener, reader.onload and   *)
(* reader.onerror.  The output stream `out` is the sequence of messages    *)
(* handed to self.postMessage, in call order.  Messages carry no run       *)
(* identifier in the code; the model adds the field `run` to every message *)
(* so that properties can speak about the messages of one run.             *)
(***************************************************************************)
EXTENDS Integers, Sequences, FiniteSets, TLC

(* ------------------------------ bounds --------------------------------- *)

\* Rows per chunk.  The source sets 5000 (line 3); the loop uses it only in
\* the comparison of line 41, so the model scales it down.
CHUNK_SIZE == 2

\* Largest number of rows of a workbook, all its sheets together.
MaxRows == 5

\* Largest number of sheets in a workbook.
MaxSheets == 2

\* Largest number of 'processFile' requests delivered to the worker.
MaxRuns == 1

\* Largest number of messages with another action delivered to the worker.
MaxOther == 1

\* Largest number of 'processFile' requests when two files are at hand.
MaxConcRuns == 2

(* --------------------------- program values ---------------------------- *)

\* defval: null, the filler of sheet_to_json for a position without a cell.
NULL == 0

\* The array literal of line 18.
targetSheets == <<"COMPANY_INFO", "TAXPAID", "PURCHASE", "SALE", "REVERSE_CHARGE">>

\* Names a sheet of a workbook can have: the target names and one other.
SheetNames == {targetSheets[k] : k \in 1..Len(targetSheets)} \cup {"OTHER"}

\* The text of the cell in row i, column c (raw: false gives formatted text).
CellText(i, c) == i * 10 + c

\* A position of a row that holds no cell.
NoCell == -1

\* A worksheet is a sequence of raw rows; a raw row reaches to its last
\* cell.  Row i of the generated worksheets has two columns when i is odd and
\* one when i is even, and every third row has no cell in its first column,
\* so rows differ in length, in content and in where their cells are.
RawRow(i) ==
  [c \in 1..(1 + (i % 2)) |-> IF i % 3 = 0 /\ c = 1 THEN NoCell ELSE CellText(i, c)]

\* A worksheet: its raw rows, and whether converting it raises an exception
\* (broken), which a well-formed workbook does not do.
Worksheet(n, broken) == [rows |-> [i \in 1..n |-> RawRow(i)], broken |-> broken]

Worksheets == {Worksheet(n, FALSE) : n \in 0..MaxRows} \cup {Worksheet(0, TRUE)}

RECURSIVE SumOver(_, _)
SumOver(f, S) ==
  IF S = {} THEN 0
  ELSE LET x == CHOOSE y \in S : TRUE IN f[x] + SumOver(f, S \ {x})

RowsOf(wb) == SumOver([name \in DOMAIN wb |-> Len(wb[name].rows)], DOMAIN wb)

\* workbook.Sheets: a function from the names of the sheets to worksheets.
Workbooks ==
  {wb \in UNION {[P -> Worksheets] :
                   P \in {Q \in SUBSET SheetNames : Cardinality(Q) <= MaxSheets}} :
     RowsOf(wb) <= MaxRows}

NoWorkbook == CHOOSE wb \in Workbooks : DOMAIN wb = {}

\* event.target.result: the bytes read.  They either decode to a workbook or
\* are not a well-formed workbook.
Bytes ==
  {[wellFormed |-> TRUE, workbook |-> wb] : wb \in Workbooks}
    \cup {[wellFormed |-> FALSE, workbook |-> NoWorkbook]}

\* The bytes whose sheets all convert without an exception.
SoundBytes == {b \in Bytes : \A name \in DOMAIN b.workbook : ~b.workbook[name].broken}

(* ------------------------------ messages ------------------------------- *)

NoSheet == ""

Msg(status, sheet, data, processed, total, summary, message) ==
  [status |-> status, sheet |-> sheet, data |-> data, processed |-> processed,
   total |-> total, summary |-> summary, message |-> message]

InfoMsg == Msg("info", NoSheet, <<>>, 0, 0, <<>>, "File loaded into memory. Parsing workbook...")

\* Mutant: the announcement carries processed: totalRows.
ProgressMsg_AtTotal(sheetName, totalRows) ==
  Msg("progress", sheetName, <<>>, totalRows, totalRows, <<>>,
      "Processing " \o sheetName \o "...")

ProgressMsg(sheetName, totalRows) ==
  Msg("progress", sheetName, <<>>, 0, totalRows, <<>>, "Processing " \o sheetName \o "...")

\* Mutant: processed counts the rows of the chunk, not of the sheet so far.
ChunkMsg_CountsChunk(sheetName, chunkedData, processed, totalRows) ==
  Msg("chunk", sheetName, chunkedData, Len(chunkedData), totalRows, <<>>, "")

\* Mutant: a chunk reports the rows sent so far as the sheet's total.
ChunkMsg_TotalSoFar(sheetName, chunkedData, processed, totalRows) ==
  Msg("chunk", sheetName, chunkedData, processed, processed, <<>>, "")

ChunkMsg(sheetName, chunkedData, processed, totalRows) ==
  Msg("chunk", sheetName, chunkedData, processed, totalRows, <<>>, "")

CompleteMsg(finalProcessedData) ==
  Msg("complete", NoSheet, <<>>, 0, 0, finalProcessedData, "")

\* Mutant: the catch block posts a fixed text, not error.message.
ErrorMsg_FixedText(message) == Msg("error", NoSheet, <<>>, 0, 0, <<>>, "Error")

ErrorMsg(message) == Msg("error", NoSheet, <<>>, 0, 0, <<>>, message)

\* Mutant: the message of reader.onerror carries no text.
ReadErrorMsg_NoText == ErrorMsg("")

ReadErrorMsg == ErrorMsg("Error reading file.")

(* --------------------------- reader.onload ----------------------------- *)

Max(S) == CHOOSE m \in S : \A x \in S : x <= m

\* Mutant: the rows keep their raw lengths (no defval).
sheet_to_json_NoPadding(ws) == ws.rows

\* XLSX.utils.sheet_to_json(ws, {header: 1, raw: false, defval: null}): an
\* array with one array per row, every row filled with defval up to the last
\* column of the sheet.
sheet_to_json(ws) ==
  LET width == Max({0} \cup {Len(ws.rows[i]) : i \in 1..Len(ws.rows)})
  IN [i \in 1..Len(ws.rows) |->
        [c \in 1..width |->
           IF c <= Len(ws.rows[i]) /\ ws.rows[i][c] # NoCell THEN ws.rows[i][c] ELSE NULL]]

\* The state of the try block: the messages posted so far, the summary
\* object, and the message of the exception thrown ("" while none is).
NotThrown == ""

TryState(posted, finalProcessedData, thrown) ==
  [posted |-> posted, finalProcessedData |-> finalProcessedData, thrown |-> thrown]

\* error.message of the exception XLSX.read throws on bytes that are not a
\* well-formed workbook, and of the one a broken sheet makes sheet_to_json
\* throw.
DecodeFailure == "not a workbook"

ConversionFailure == "conversion failed"

\* Mutant: the assignment replaces the summary object.
SetKey_Replaces(obj, key, value) == [k \in {key} |-> value]

\* finalProcessedData[sheetName] = totalRows
SetKey(obj, key, value) ==
  [k \in DOMAIN obj \cup {key} |-> IF k = key THEN value ELSE obj[k]]

\* Mutant: the loop posts full chunks only (no test of the last row).
RECURSIVE ChunkLoop_DropsTail(_, _, _, _, _, _)
ChunkLoop_DropsTail(i, totalRows, sheetName, sheetData, chunkedData, posted) ==
  IF ~(i < totalRows) THEN posted
  ELSE LET pushed == Append(chunkedData, sheetData[i + 1])
       IN IF Len(pushed) = CHUNK_SIZE
          THEN ChunkLoop_DropsTail(i + 1, totalRows, sheetName, sheetData, <<>>,
                                   Append(posted, ChunkMsg(sheetName, pushed, i + 1, totalRows)))
          ELSE ChunkLoop_DropsTail(i + 1, totalRows, sheetName, sheetData, pushed, posted)

\* Mutant: the loop posts a chunk once it holds more than CHUNK_SIZE rows.
RECURSIVE ChunkLoop_OneTooMany(_, _, _, _, _, _)
ChunkLoop_OneTooMany(i, totalRows, sheetName, sheetData, chunkedData, posted) ==
  IF ~(i < totalRows) THEN posted
  ELSE LET pushed == Append(chunkedData, sheetData[i + 1])
       IN IF Len(pushed) > CHUNK_SIZE \/ i = totalRows - 1
          THEN ChunkLoop_OneTooMany(i + 1, totalRows, sheetName, sheetData, <<>>,
                                    Append(posted, ChunkMsg(sheetName, pushed, i + 1, totalRows)))
          ELSE ChunkLoop_OneTooMany(i + 1, totalRows, sheetName, sheetData, pushed, posted)

\* Mutant: the rows left are posted after the loop, also when there are none.
RECURSIVE ChunkLoop_FlushesEmpty(_, _, _, _, _, _)
ChunkLoop_FlushesEmpty(i, totalRows, sheetName, sheetData, chunkedData, posted) ==
  IF ~(i < totalRows)
  THEN Append(posted, ChunkMsg(sheetName, chunkedData, i, totalRows))
  ELSE LET pushed == Append(chunkedData, sheetData[i + 1])
       IN IF Len(pushed) = CHUNK_SIZE /\ i # totalRows - 1
          THEN ChunkLoop_FlushesEmpty(i + 1, totalRows, sheetName, sheetData, <<>>,
                                      Append(posted, ChunkMsg(sheetName, pushed, i + 1, totalRows)))
          ELSE ChunkLoop_FlushesEmpty(i + 1, totalRows, sheetName, sheetData, pushed, posted)

\* The for loop of lines 38-51, from iteration i (0-based as in the code) with
\* chunkedData holding the rows pushed since the last chunk message.
RECURSIVE ChunkLoop(_, _, _, _, _, _)
ChunkLoop(i, totalRows, sheetName, sheetData, chunkedData, posted) ==
  IF ~(i < totalRows) THEN posted
  ELSE LET pushed == Append(chunkedData, sheetData[i + 1])
       IN IF Len(pushed) = CHUNK_SIZE \/ i = totalRows - 1
          THEN ChunkLoop(i + 1, totalRows, sheetName, sheetData, <<>>,
                         Append(posted, ChunkMsg(sheetName, pushed, i + 1, totalRows)))
          ELSE ChunkLoop(i + 1, totalRows, sheetName, sheetData, pushed, posted)

\* Mutant: the callback lacks the test of line 23 and reads a property of
\* undefined when the sheet is absent.
ForEachBody_AbsentThrows(st, workbook, sheetName) ==
  IF sheetName \notin DOMAIN workbook
  THEN TryState(st.posted, st.finalProcessedData, "Cannot read properties of undefined")
  ELSE LET ws == workbook[sheetName] IN
       IF ws.broken
       THEN TryState(st.posted, st.finalProcessedData, ConversionFailure)
       ELSE LET sheetData == sheet_to_json(ws)
                totalRows == Len(sheetData)
                announced == Append(st.posted, ProgressMsg(sheetName, totalRows))
            IN TryState(ChunkLoop(0, totalRows, sheetName, sheetData, <<>>, announced),
                        SetKey(st.finalProcessedData, sheetName, totalRows),
                        NotThrown)

\* The callback of targetSheets.forEach (lines 21-53) for one sheet name.
ForEachBody(st, workbook, sheetName) ==
  IF sheetName \notin DOMAIN workbook THEN st
  ELSE LET ws == workbook[sheetName] IN
       IF ws.broken
       THEN TryState(st.posted, st.finalProcessedData, ConversionFailure)
       ELSE LET sheetData == sheet_to_json(ws)
                totalRows == Len(sheetData)
                announced == Append(st.posted, ProgressMsg(sheetName, totalRows))
            IN TryState(ChunkLoop(0, totalRows, sheetName, sheetData, <<>>, announced),
                        SetKey(st.finalProcessedData, sheetName, totalRows),
                        NotThrown)

\* Mutant: the sheets are visited from the last name to the first.
RECURSIVE ForEach_Backwards(_, _, _)
ForEach_Backwards(st, workbook, k) ==
  IF k > Len(targetSheets) \/ st.thrown # NotThrown THEN st
  ELSE ForEach_Backwards(ForEachBody(st, workbook, targetSheets[Len(targetSheets) + 1 - k]),
                         workbook, k + 1)

\* Mutant: an exception in the callback is swallowed at the next name, so the
\* sheets after it are still processed.
RECURSIVE ForEach_KeepsGoing(_, _, _)
ForEach_KeepsGoing(st, workbook, k) ==
  IF k > Len(targetSheets) THEN st
  ELSE LET next == ForEachBody(st, workbook, targetSheets[k])
       IN ForEach_KeepsGoing(
            TryState(next.posted, next.finalProcessedData,
                     IF st.thrown # NotThrown THEN st.thrown ELSE next.thrown),
            workbook, k + 1)

\* targetSheets.forEach from index k on; an exception ends the iteration.
RECURSIVE ForEach(_, _, _)
ForEach(st, workbook, k) ==
  IF k > Len(targetSheets) \/ st.thrown # NotThrown THEN st
  ELSE ForEach(ForEachBody(st, workbook, targetSheets[k]), workbook, k + 1)

\* Mutant: the 'info' message is posted only once the bytes decoded.
TryBlock_InfoAfterParse(result) ==
  IF ~result.wellFormed
  THEN TryState(<<>>, <<>>, DecodeFailure)
  ELSE ForEach(TryState(<<InfoMsg>>, <<>>, NotThrown), result.workbook, 1)

\* The try block of lines 13-55 up to the 'complete' message.
TryBlock(result) ==
  LET start == TryState(<<InfoMsg>>, <<>>, NotThrown)
  IN IF ~result.wellFormed
     THEN TryState(start.posted, start.finalProcessedData, DecodeFailure)
     ELSE ForEach(start, result.workbook, 1)

\* Mutant: 'complete' is posted after the try statement, also after 'error'.
OnloadMessages_CompleteAfterError(result) ==
  LET st == TryBlock(result)
      caught == IF st.thrown = NotThrown THEN st.posted
                ELSE Append(st.posted, ErrorMsg(st.thrown))
  IN Append(caught, CompleteMsg(st.finalProcessedData))

\* All messages reader.onload posts for the bytes `result` (lines 12-59).
OnloadMessages(result) ==
  LET st == TryBlock(result)
  IN IF st.thrown = NotThrown
     THEN Append(st.posted, CompleteMsg(st.finalProcessedData))
     ELSE Append(st.posted, ErrorMsg(st.thrown))

(* ------------------------------- state --------------------------------- *)

VARIABLES
  files,   \* the content of every file a request can carry
  runs,    \* one record per 'processFile' request, in order of arrival; the
           \* request is a run once its read began
  others,  \* number of messages with another action received
  out      \* the messages posted to the host, each tagged with its run

vars == <<files, runs, others, out>>

\* data.file is a file of `files` or a value that is not a Blob.
NotABlob == "not a Blob"

TheFile == "file"

OtherFile == "other file"

\* A run is "reading" while its FileReader is loading, "loaded" after
\* reader.onload ran, "failed" after reader.onerror ran, and "threw" when
\* readAsArrayBuffer raised an exception and no read began.
Run(state, file) == [state |-> state, file |-> file]

\* The messages msgs as posted by run r.
Tag(r, msgs) == [k \in 1..Len(msgs) |-> [run |-> r, msg |-> msgs[k]]]

\* One file is at hand, with content of the set Contents; every request
\* carries it or a value that is not a Blob.
InitWith(Contents) ==
  /\ files \in [{TheFile} -> Contents]
  /\ runs = <<>>
  /\ others = 0
  /\ out = <<>>

\* The worker as the library behaves on the workbooks it decoded: converting
\* a sheet raises no exception.
Init == InitWith(SoundBytes)

\* The worker when converting a sheet may raise an exception.
FaultInit == InitWith(Bytes)

\* The 'message' listener (lines 5-67) for a message with action
\* 'processFile'.  readAsArrayBuffer starts the read when data.file is a Blob
\* and throws a TypeError, which nothing catches, when it is not.  At most
\* `limit` requests are delivered.
ReceiveProcessFile(file, limit) ==
  /\ Len(runs) < limit
  /\ runs' = Append(runs, Run(IF file # NotABlob THEN "reading" ELSE "threw", file))
  /\ UNCHANGED <<files, others, out>>

\* Mutant: a message with another action is answered with an 'info' message.
ReceiveOther_Answers ==
  /\ others < MaxOther
  /\ others' = others + 1
  /\ out' = Append(out, [run |-> 0, msg |-> InfoMsg])
  /\ UNCHANGED <<files, runs>>

\* The 'message' listener for a message with any other action.
ReceiveOther ==
  /\ others < MaxOther
  /\ others' = others + 1
  /\ UNCHANGED <<files, runs, out>>

\* Mutant: the file is held in a variable all requests share, so the handler
\* works on the file of the latest request that carried one.
ReaderOnload_LatestFile(r) ==
  /\ r \in DOMAIN runs
  /\ runs[r].state = "reading"
  /\ runs' = [runs EXCEPT ![r].state = "loaded"]
  /\ LET latest == Max({k \in DOMAIN runs : runs[k].file \in DOMAIN files})
     IN out' = out \o Tag(r, OnloadMessages(files[runs[latest].file]))
  /\ UNCHANGED <<files, others>>

\* Mutant: the handler yields after each message, so that its messages mix
\* with those posted before: its 'info' message comes out ahead of them.
ReaderOnload_Yields(r) ==
  /\ r \in DOMAIN runs
  /\ runs[r].state = "reading"
  /\ runs' = [runs EXCEPT ![r].state = "loaded"]
  /\ LET msgs == Tag(r, OnloadMessages(files[runs[r].file]))
     IN out' = <<msgs[1]>> \o out \o Tail(msgs)
  /\ UNCHANGED <<files, others>>

\* reader.onload (lines 12-59): the read of run r succeeded;
\* event.target.result is the content of the file.
ReaderOnload(r) ==
  /\ r \in DOMAIN runs
  /\ runs[r].state = "reading"
  /\ runs' = [runs EXCEPT ![r].state = "loaded"]
  /\ out' = out \o Tag(r, OnloadMessages(files[runs[r].file]))
  /\ UNCHANGED <<files, others>>

\* reader.onerror (lines 61-63): the read of run r failed.
ReaderOnerror(r) ==
  /\ r \in DOMAIN runs
  /\ runs[r].state = "reading"
  /\ runs' = [runs EXCEPT ![r].state = "failed"]
  /\ out' = out \o Tag(r, <<ReadErrorMsg>>)
  /\ UNCHANGED <<files, others>>

Next ==
  \/ \E file \in DOMAIN files \cup {NotABlob} : ReceiveProcessFile(file, MaxRuns)
  \/ ReceiveOther
  \/ \E r \in DOMAIN runs : ReaderOnload(r)
  \/ \E r \in DOMAIN runs : ReaderOnerror(r)

Spec == Init /\ [][Next]_vars

FaultSpec == FaultInit /\ [][Next]_vars

\* The FileReader fires load or error for every read it started.
Fairness == \A r \in 1..MaxRuns : WF_vars(ReaderOnerror(r) \/ ReaderOnload(r))

FairSpec == Spec /\ Fairness

FairFaultSpec == FaultSpec /\ Fairness

\* Contents for the worker with two files: bytes that are no workbook, a
\* workbook of one sheet sent in several chunks, a workbook of two sheets,
\* and a workbook whose sheet fails to convert.
ConcBytes ==
  { [wellFormed |-> FALSE, workbook |-> NoWorkbook],
    [wellFormed |-> TRUE, workbook |-> [n \in {"TAXPAID"} |-> Worksheet(3, FALSE)]],
    [wellFormed |-> TRUE,
     workbook |-> [n \in {"TAXPAID", "SALE"} |->
                     IF n = "SALE" THEN Worksheet(2, FALSE) ELSE Worksheet(1, FALSE)]],
    [wellFormed |-> TRUE, workbook |-> [n \in {"PURCHASE"} |-> Worksheet(0, TRUE)]] }

\* Two files are at hand and several requests, each carrying one of them or
\* a value that is not a Blob, are delivered to the same worker.
ConcInit ==
  /\ files \in [{TheFile, OtherFile} -> ConcBytes]
  /\ runs = <<>>
  /\ others = 0
  /\ out = <<>>

ConcNext ==
  \/ \E file \in DOMAIN files \cup {NotABlob} : ReceiveProcessFile(file, MaxConcRuns)
  \/ ReceiveOther
  \/ \E r \in DOMAIN runs : ReaderOnload(r)
  \/ \E r \in DOMAIN runs : ReaderOnerror(r)

ConcSpec == ConcInit /\ [][ConcNext]_vars

(* ---------------------------- observations ----------------------------- *)

\* The messages of run r, in the order they were posted.
RunMsgs(r) ==
  LET OfRun(m) == m.run = r
      mine == SelectSeq(out, OfRun)
  IN [k \in 1..Len(mine) |-> mine[k].msg]

\* The messages of run r that name the sheet, and its chunk messages.
SheetMsgs(r, name) ==
  LET OfSheet(m) == m.sheet = name IN SelectSeq(RunMsgs(r), OfSheet)

ChunkMsgs(r, name) ==
  LET IsChunk(m) == m.status = "chunk" IN SelectSeq(SheetMsgs(r, name), IsChunk)

ProgressMsgs(r, name) ==
  LET IsProgress(m) == m.status = "progress" IN SelectSeq(SheetMsgs(r, name), IsProgress)

IsTerminal(m) == m.status \in {"complete", "error"}

\* The positions of the terminal messages among the messages of run r.
TerminalAt(r) == {k \in 1..Len(RunMsgs(r)) : IsTerminal(RunMsgs(r)[k])}

\* The concatenation of the data payloads of a sequence of messages.
RECURSIVE ConcatData(_)
ConcatData(msgs) ==
  IF msgs = <<>> THEN <<>> ELSE msgs[1].data \o ConcatData(Tail(msgs))

\* The number of rows in the data payloads of the first k messages.
RowsUpTo(msgs, k) == Len(ConcatData(SubSeq(msgs, 1, k)))

TargetNames == {targetSheets[k] : k \in 1..Len(targetSheets)}

\* The runs whose reader.onload ran, and what it was given.
Loaded == {r \in DOMAIN runs : runs[r].state = "loaded"}

ResultOf(r) == files[runs[r].file]

\* The target sheets present in the workbook run r decoded.
PresentTargets(r) ==
  IF ResultOf(r).wellFormed THEN TargetNames \cap DOMAIN ResultOf(r).workbook ELSE {}

TypeOK ==
  /\ others \in 0..MaxOther
  /\ Len(runs) <= Max({MaxRuns, MaxConcRuns})
  /\ \A r \in DOMAIN runs : runs[r].state \in {"reading", "loaded", "failed", "threw"}

(* ------------------------------- claims -------------------------------- *)

\* C1 as claimed: every run started by a 'processFile' request, once the
\* listener and the handlers of its read are done with it, has exactly one
\* terminal message ('complete' or 'error'), which is the last message of the
\* run, so the two never both occur and no message of the run follows it.
C1_AsClaimed ==
  \A r \in DOMAIN runs :
    runs[r].state # "reading" =>
      /\ Cardinality(TerminalAt(r)) = 1
      /\ TerminalAt(r) = {Len(RunMsgs(r))}

\* What holds of it: a request whose read began has no message while the
\* read is pending and exactly one terminal message, its last message, once
\* reader.onload or reader.onerror ran.
C1_OneTerminalLast ==
  \A r \in DOMAIN runs :
    /\ runs[r].state = "reading" => RunMsgs(r) = <<>>
    /\ runs[r].state \in {"loaded", "failed"} =>
         /\ Cardinality(TerminalAt(r)) = 1
         /\ TerminalAt(r) = {Len(RunMsgs(r))}

\* A run ended in 'error' after it posted a chunk, and nothing followed.
C1_Witness ==
  \E r \in Loaded :
    /\ RunMsgs(r)[Len(RunMsgs(r))].status = "error"
    /\ \E k \in 1..Len(RunMsgs(r)) : RunMsgs(r)[k].status = "chunk"

\* C2: for every run and every target sheet present in the workbook, the
\* data payloads of the sheet's chunk messages, concatenated in the order
\* posted, are the rows of the converted sheet: none dropped, reordered or
\* duplicated.
C2_ChunksRebuildSheet ==
  \A r \in Loaded : \A name \in PresentTargets(r) :
    ConcatData(ChunkMsgs(r, name)) = sheet_to_json(ResultOf(r).workbook[name])

\* A sheet was sent in three chunks, the last one shorter than the others.
C2_Witness ==
  \E r \in Loaded : \E name \in PresentTargets(r) :
    /\ Len(ChunkMsgs(r, name)) >= 3
    /\ Len(ChunkMsgs(r, name)[Len(ChunkMsgs(r, name))].data) < CHUNK_SIZE

\* C3: across the chunk messages of one sheet, processed is strictly
\* increasing, is the number of rows sent for the sheet up to and including
\* that chunk, and equals total in the sheet's last chunk message.
C3_ProcessedCumulative ==
  \A r \in DOMAIN runs : \A name \in TargetNames :
    LET ch == ChunkMsgs(r, name) IN
      /\ \A k \in 1..Len(ch) : ch[k].processed = RowsUpTo(ch, k)
      /\ \A k \in 2..Len(ch) : ch[k - 1].processed < ch[k].processed
      /\ ch # <<>> => ch[Len(ch)].processed = ch[Len(ch)].total

\* A sheet was sent in at least two chunks.
C3_Witness ==
  \E r \in Loaded : \E name \in TargetNames : Len(ChunkMsgs(r, name)) >= 2

\* The target sheets run r posted a message about.
Processed(r) == {name \in TargetNames : SheetMsgs(r, name) # <<>>}

\* The positions among the messages of run r of those that name the sheet.
PositionsOf(r, name) == {k \in 1..Len(RunMsgs(r)) : RunMsgs(r)[k].sheet = name}

\* Where processed equals total among the messages msgs.
AtTotal(msgs) == {k \in 1..Len(msgs) : msgs[k].processed = msgs[k].total}

NonDecreasing(msgs) == \A k \in 2..Len(msgs) : msgs[k - 1].processed <= msgs[k].processed

\* C4 as claimed: for every sheet processed in a run, a sheet with zero rows
\* included, processed over the sheet's progress and chunk messages is
\* non-decreasing and equals total in exactly one message, which is the
\* sheet's final chunk message.
C4_AsClaimed ==
  \A r \in DOMAIN runs : \A name \in Processed(r) :
    LET sm == SheetMsgs(r, name) IN
      /\ NonDecreasing(sm)
      /\ Cardinality(AtTotal(sm)) = 1
      /\ \A k \in AtTotal(sm) : sm[k].status = "chunk" /\ k = Len(sm)

\* C4: for every sheet processed in a run, processed over the sheet's
\* progress and chunk messages is non-decreasing and equals total in exactly
\* one message, the last message of the sheet: its final chunk message when
\* the sheet has a row, its progress message when the sheet has none.
C4_TotalReachedOnceAtLast ==
  \A r \in DOMAIN runs : \A name \in Processed(r) :
    LET sm == SheetMsgs(r, name) IN
      /\ NonDecreasing(sm)
      /\ AtTotal(sm) = {Len(sm)}
      /\ sm[Len(sm)].status = (IF sm[Len(sm)].total > 0 THEN "chunk" ELSE "progress")

\* A run processed a sheet without rows and a sheet sent in several chunks.
C4_Witness ==
  \E r \in Loaded : \E empty, long \in Processed(r) :
    /\ SheetMsgs(r, empty)[1].total = 0
    /\ Len(ChunkMsgs(r, long)) >= 2

\* C5: in every 'complete' message the keys of summary are exactly the
\* target sheet names present in the workbook, and each key maps to the
\* number of rows of that sheet.
C5_SummaryIsPresentTargets ==
  \A r \in DOMAIN runs : \A k \in 1..Len(RunMsgs(r)) :
    LET m == RunMsgs(r)[k] IN
      m.status = "complete" =>
        /\ DOMAIN m.summary = PresentTargets(r)
        /\ \A name \in PresentTargets(r) :
             m.summary[name] = Len(ResultOf(r).workbook[name].rows)

\* A run completed on a workbook with two target sheets, one of them with
\* rows.
C5_Witness ==
  \E r \in Loaded :
    /\ RunMsgs(r)[Len(RunMsgs(r))].status = "complete"
    /\ Cardinality(PresentTargets(r)) = 2
    /\ \E name \in PresentTargets(r) : Len(ResultOf(r).workbook[name].rows) > 0

\* ceil(n / d) for n >= 0 and d > 0.
CeilDiv(n, d) == (n + d - 1) \div d

\* C6: every chunk message carries at least one row and at most CHUNK_SIZE
\* rows, every chunk of a sheet but its last carries exactly CHUNK_SIZE rows,
\* and a sheet of n > 0 rows is sent in exactly ceil(n / CHUNK_SIZE) chunk
\* messages.
C6_ChunkSizes ==
  \A r \in DOMAIN runs : \A name \in TargetNames :
    LET ch == ChunkMsgs(r, name) IN
      /\ \A k \in 1..Len(ch) :
           /\ Len(ch[k].data) >= 1
           /\ Len(ch[k].data) <= CHUNK_SIZE
           /\ k < Len(ch) => Len(ch[k].data) = CHUNK_SIZE
      /\ r \in Loaded /\ name \in PresentTargets(r) =>
           LET n == Len(ResultOf(r).workbook[name].rows)
           IN n > 0 => Len(ch) = CeilDiv(n, CHUNK_SIZE)

\* The scenario of the claim at the scale of the model: a sheet of more than
\* two chunks of rows is sent as two full chunks and a shorter one, with
\* processed CHUNK_SIZE, 2 * CHUNK_SIZE and the number of rows.
C6_Witness ==
  \E r \in Loaded : \E name \in PresentTargets(r) :
    LET ch == ChunkMsgs(r, name)
        n == Len(ResultOf(r).workbook[name].rows)
    IN /\ n > 2 * CHUNK_SIZE
       /\ [k \in 1..Len(ch) |-> Len(ch[k].data)] = <<CHUNK_SIZE, CHUNK_SIZE, n - 2 * CHUNK_SIZE>>
       /\ [k \in 1..Len(ch) |-> ch[k].processed] = <<CHUNK_SIZE, 2 * CHUNK_SIZE, n>>

\* The place of a target sheet name in targetSheets.
IndexOf(name) == CHOOSE k \in 1..Len(targetSheets) : targetSheets[k] = name

\* C7: for every processed sheet exactly one progress message is posted, with
\* processed = 0, before every chunk message of the sheet; the messages of
\* one sheet are contiguous in the stream of the run; and the sheets appear
\* in the order of targetSheets, never interleaved.
C7_SheetOrder ==
  \A r \in DOMAIN runs :
    /\ \A name \in Processed(r) :
         /\ Len(ProgressMsgs(r, name)) = 1
         /\ SheetMsgs(r, name)[1].status = "progress"
         /\ SheetMsgs(r, name)[1].processed = 0
         /\ \A j, k \in PositionsOf(r, name) : \A m \in j..k : m \in PositionsOf(r, name)
    /\ \A a, b \in Processed(r) :
         IndexOf(a) < IndexOf(b) =>
           \A j \in PositionsOf(r, a) : \A k \in PositionsOf(r, b) : j < k
    /\ \A k \in 1..Len(RunMsgs(r)) :
         RunMsgs(r)[k].status \in {"progress", "chunk"} => RunMsgs(r)[k].sheet \in TargetNames

\* A run processed two sheets and sent chunks of both.
C7_Witness ==
  \E r \in Loaded : \E a, b \in Processed(r) :
    /\ a # b
    /\ ChunkMsgs(r, a) # <<>>
    /\ ChunkMsgs(r, b) # <<>>

\* C8: for every sheet of zero rows exactly one progress message and no
\* chunk message is posted, and the summary of the run maps the sheet to 0.
C8_EmptySheet ==
  \A r \in Loaded : \A name \in PresentTargets(r) :
    Len(ResultOf(r).workbook[name].rows) = 0 =>
      /\ Len(ProgressMsgs(r, name)) = 1
      /\ ProgressMsgs(r, name)[1].total = 0
      /\ ChunkMsgs(r, name) = <<>>
      /\ LET last == RunMsgs(r)[Len(RunMsgs(r))] IN
           /\ last.status = "complete"
           /\ name \in DOMAIN last.summary
           /\ last.summary[name] = 0

\* A run processed a sheet of zero rows and then a sheet with rows.
C8_Witness ==
  \E r \in Loaded : \E empty, other \in PresentTargets(r) :
    /\ Len(ResultOf(r).workbook[empty].rows) = 0
    /\ Len(ResultOf(r).workbook[other].rows) > 0
    /\ IndexOf(empty) < IndexOf(other)

\* C9: a target sheet absent from the workbook has no message that names it
\* and no key in the summary, and its absence is no error: the run ends in
\* 'error' only when converting a sheet that is present raised an exception.
\* When no target sheet is present the run posts no progress and no chunk
\* message and ends with 'complete' and an empty summary.
C9_AbsentSheet ==
  \A r \in Loaded :
    ResultOf(r).wellFormed =>
      LET msgs == RunMsgs(r)
          last == msgs[Len(msgs)]
      IN /\ \A name \in TargetNames \ PresentTargets(r) :
              /\ SheetMsgs(r, name) = <<>>
              /\ last.status = "complete" => name \notin DOMAIN last.summary
         /\ last.status = "error" =>
              \E name \in PresentTargets(r) : ResultOf(r).workbook[name].broken
         /\ PresentTargets(r) = {} =>
              /\ \A k \in 1..Len(msgs) : msgs[k].status \notin {"progress", "chunk"}
              /\ last.status = "complete"
              /\ DOMAIN last.summary = {}

\* A run finished on a workbook that has a sheet, but none of the targets.
C9_Witness ==
  \E r \in Loaded :
    /\ ResultOf(r).wellFormed
    /\ DOMAIN ResultOf(r).workbook # {}
    /\ PresentTargets(r) = {}

\* C10: when the read fails, the run posts the 'error' message with the text
\* about reading and nothing else: no info, progress, chunk or complete
\* message, before or after.
C10_ReadError ==
  \A r \in DOMAIN runs :
    runs[r].state = "failed" =>
      /\ Len(RunMsgs(r)) = 1
      /\ RunMsgs(r)[1].status = "error"
      /\ RunMsgs(r)[1].message = "Error reading file."

\* The read of a run failed.
C10_Witness == \E r \in DOMAIN runs : runs[r].state = "failed"

\* The messages of run r with the given status.
WithStatus(r, status) ==
  LET Has(m) == m.status = status IN SelectSeq(RunMsgs(r), Has)

\* C11: when decoding the bytes fails, the run posts exactly one 'error'
\* message, which carries the description of the decoder's failure, and no
\* progress, chunk or complete message.
C11_DecodeError ==
  \A r \in Loaded :
    ~ResultOf(r).wellFormed =>
      /\ Len(WithStatus(r, "error")) = 1
      /\ WithStatus(r, "error")[1].message = "not a workbook"
      /\ WithStatus(r, "progress") = <<>>
      /\ WithStatus(r, "chunk") = <<>>
      /\ WithStatus(r, "complete") = <<>>

\* reader.onload ran on bytes that are no workbook.
C11_Witness == \E r \in Loaded : ~ResultOf(r).wellFormed

\* The requests that met a failure: the read did not start, the read failed,
\* the bytes did not decode, or converting a sheet raised an exception.
MetFailure(r) ==
  \/ runs[r].state \in {"threw", "failed"}
  \/ /\ runs[r].state = "loaded"
     /\ \/ ~ResultOf(r).wellFormed
        \/ \E name \in PresentTargets(r) : ResultOf(r).workbook[name].broken

\* C12 as claimed: every failure in a run, at any step from the receipt of
\* the 'processFile' request on, results in exactly one 'error' message.
C12_AsClaimed ==
  \A r \in DOMAIN runs : MetFailure(r) => Len(WithStatus(r, "error")) = 1

\* The first target name, in the order of targetSheets, whose sheet is
\* present and broken in the workbook of run r.
FirstBroken(r) ==
  LET broken == {k \in 1..Len(targetSheets) :
                   /\ targetSheets[k] \in PresentTargets(r)
                   /\ ResultOf(r).workbook[targetSheets[k]].broken}
  IN CHOOSE k \in broken : \A j \in broken : k <= j

\* The workbook of run r without the sheets from its first broken one on.
BeforeBroken(r) ==
  LET wb == ResultOf(r).workbook
      kept == {name \in DOMAIN wb : name \in TargetNames /\ IndexOf(name) < FirstBroken(r)}
  IN [name \in kept |-> wb[name]]

\* The messages but the last.
Front(msgs) == SubSeq(msgs, 1, Len(msgs) - 1)

\* C13: when converting a sheet raises an exception after earlier messages
\* were posted, the stream of the run is the messages of the sheets before
\* it, as they are posted without the exception, followed by exactly one
\* 'error' message; the run posts no 'complete' message.
C13_ErrorAfterPrefix ==
  \A r \in Loaded :
    (ResultOf(r).wellFormed /\ \E name \in PresentTargets(r) : ResultOf(r).workbook[name].broken) =>
      /\ Front(RunMsgs(r)) =
           Front(OnloadMessages([wellFormed |-> TRUE, workbook |-> BeforeBroken(r)]))
      /\ RunMsgs(r)[Len(RunMsgs(r))].status = "error"
      /\ Len(WithStatus(r, "error")) = 1
      /\ WithStatus(r, "complete") = <<>>

\* A run posted the chunks of one sheet, then converting the next sheet
\* raised an exception.
C13_Witness ==
  \E r \in Loaded :
    /\ ResultOf(r).wellFormed
    /\ \E name \in PresentTargets(r) : ResultOf(r).workbook[name].broken
    /\ WithStatus(r, "chunk") # <<>>

\* C14 as claimed: every run started by a 'processFile' request eventually
\* has its terminal message ('complete' or 'error'), given that a read that
\* began resolves with one of its outcomes (Fairness).
C14_AsClaimed ==
  \A r \in 1..MaxRuns : (r \in DOMAIN runs) ~> (TerminalAt(r) # {})

\* What holds of it: a run whose read is pending eventually has its terminal
\* message; reader.onload, ChunkLoop included, is one terminating step.
C14_ReadingLeadsToTerminal ==
  \A r \in 1..MaxRuns :
    (r \in DOMAIN runs /\ runs[r].state = "reading") ~> (TerminalAt(r) # {})

\* C18: in every run whose read succeeded, exactly one 'info' message is
\* posted and it is the first message of the run, whether or not the bytes
\* decode and whichever sheets the workbook holds.
C18_InfoFirstOnce ==
  \A r \in Loaded :
    /\ Len(WithStatus(r, "info")) = 1
    /\ RunMsgs(r)[1].status = "info"

\* A read succeeded on bytes that hold a sheet with rows: 'info' is followed
\* by 'progress' and 'chunk' messages.
C18_Witness ==
  \E r \in Loaded :
    /\ Len(RunMsgs(r)) > 3
    /\ WithStatus(r, "chunk") # <<>>
    /\ WithStatus(r, "info") # <<>>

\* C19: within one run, for every sheet the run announced, the 'total' of
\* its 'progress' message is the 'total' of every one of its 'chunk'
\* messages, is the number of rows in all its chunks together, and is the
\* value the 'complete' summary records for the sheet.
C19_TotalAgrees ==
  \A r \in Loaded : \A name \in TargetNames :
    SheetMsgs(r, name) # <<>> =>
      /\ Len(ProgressMsgs(r, name)) = 1
      /\ LET total == ProgressMsgs(r, name)[1].total
             chunks == ChunkMsgs(r, name)
             done == WithStatus(r, "complete")
         IN /\ \A k \in 1..Len(chunks) : chunks[k].total = total
            /\ Len(ConcatData(chunks)) = total
            /\ \A k \in 1..Len(done) :
                 /\ name \in DOMAIN done[k].summary
                 /\ done[k].summary[name] = total

\* A run completed after it sent a sheet in more than one chunk.
C19_Witness ==
  \E r \in Loaded : \E name \in TargetNames :
    /\ Len(ChunkMsgs(r, name)) > 1
    /\ WithStatus(r, "complete") # <<>>

\* C20: a message whose action is not 'processFile' starts no read and posts
\* no message: the step that receives it leaves the output stream and every
\* run, pending or finished, as they were.
C20_OtherActionIgnored ==
  [][others' # others => UNCHANGED <<files, runs, out>>]_vars

\* Such a message was received while a read was pending.
C20_Witness ==
  /\ others > 0
  /\ \E r \in DOMAIN runs : runs[r].state = "reading"

Alone(r) ==
  CASE runs[r].state = "loaded" -> OnloadMessages(files[runs[r].file])
    [] runs[r].state = "failed" -> <<ReadErrorMsg>>
    [] OTHER -> <<>>

\* C16: when several 'processFile' requests are delivered to one worker and
\* their reads complete in any order, the messages of each run, in the order
\* posted, are the messages the run posts when executed alone: summary, row
\* data, 'processed' and 'total' do not depend on the other runs.
C16_RunsIndependent ==
  \A r \in DOMAIN runs : RunMsgs(r) = Alone(r)

\* Two runs on files with different content both sent rows, and the run
\* requested second posted first.
C16_Witness ==
  /\ Cardinality(Loaded) = 2
  /\ \A r \in Loaded : WithStatus(r, "chunk") # <<>>
  /\ \E r, q \in Loaded : ResultOf(r) # ResultOf(q)
  /\ out[1].run = 2

\* C17: reader.onload posts all messages of its run, from 'info' to the
\* terminal message, in one uninterrupted step: in the output stream no
\* message of another run lies between two messages of the same run.
C17_RunsContiguous ==
  \A i, j, k \in DOMAIN out :
    (i < j /\ j < k /\ out[i].run = out[k].run) => out[j].run = out[i].run

\* Two reads were pending together (the run requested first posted last) and
\* both runs posted several messages.
C17_Witness ==
  /\ Cardinality(Loaded) = 2
  /\ \A r \in Loaded : Len(RunMsgs(r)) > 2
  /\ out[Len(out)].run = 1

====
